---- MODULE Spec2Model ----
(***************************************************************************)
(* ELD trip planner: the stop planner (calculate_stop_points and its       *)
(* caller-level fallback), the duty-log simulator                          *)
(* (generate_eld_logs_with_stops) and the request handler                  *)
(* (TripCreateView.post) that drives both.                                 *)
(*                                                                         *)
(* Units.  Miles are counted in hundredths of a mile (the route distance   *)
(* is rounded to 2 decimals, services.py:76) and hours in hundredths of an *)
(* hour (drive_hours is rounded to 2 decimals, services.py:357), so every  *)
(* quantity of the simulator is an integer.  Coordinates are (lat, lon)    *)
(* pairs on one meridian; the great-circle distance of two such points is  *)
(* the difference of their latitudes, here counted in hundredths of a mile.*)
(* A LogDay's `date` is a day number: the wall-clock day `now` at the time  *)
(* the record is made, plus day - 1.                                       *)
(*                                                                         *)
(* Floats.  A float of the simulator is its two-decimal value together     *)
(* with the sign of its deviation from that value (-1, 0, 1): only         *)
(* multiples of a quarter hour are exact, and a sum with an inexact        *)
(* operand may fall on either side of the value it should have.            *)
(***************************************************************************)
EXTENDS Integers, Sequences, FiniteSets, TLC

\* ------------------------------------------------------------------ constants
MAX_CYCLE_HOURS == 70
AVERAGE_SPEED == 50
FUEL_INTERVAL == 1000
REST_BREAK_INTERVAL == 8
\* round(x, 2): two decimals are kept of miles and of hours
MilesScale == 100
HoursScale == 100
\* the literals of the simulator's loop
DailyDriveLimit == 11
DutyWindowLimit == 14
BreakAfterHours == 8
HoursPerDay == 24

\* ------------------------------------------------------------------ bounds
\* longest stop list handed to the simulator
MaxStops == 3
\* stop latitudes are 0..MaxPos steps of PosStep hundredths of a mile
MaxPos == 3
PosStep == 45030
\* total_miles is 0..MaxTotal steps of TotalStep hundredths of a mile
MaxTotal == 2
TotalStep == 50033
\* the meridian every modelled coordinate lies on
Meridian == 7
\* a POI lies PoiShift hundredths of a mile north of the point searched
PoiShift == 300
\* the route has at most MaxRoute points; total_miles of the planner is
\* 0..MaxMileSteps steps of MileStep hundredths of a mile
MaxRoute == 4
MaxMileSteps == 21
MileStep == 10000
\* the route service's distance is PostMileSteps steps of MileStep
PostMileSteps == 9
\* a POI search has at most MaxKeywords keywords
MaxKeywords == 2
\* midnight passes at most MaxMidnights times
MaxMidnights == 1

\* Python's None where a string stands: a step name, an address
None == "None"
\* search_radius_km of a stop no radius found a POI for (None in the source)
NoRadius == 0
\* idx and coords before the first iteration of a loop assigns them
NoIndex == 0 - 1
NoCoords == <<0 - 1, 0 - 1>>

VARIABLES
    \* generate_eld_logs_with_stops
    epc,                 \* position in the simulator
    trip_stops,          \* trip.stops.order_by('sequence')
    current_cycle_used,  \* trip.current_cycle_used, hours
    total_miles,         \* the simulator's total_miles argument
    i,                   \* index of the stop being processed (1-based)
    day, current_hour, odometer, daily_drive_hours, drive_hours,
    \* the sign of each float's deviation from its two-decimal value
    current_hour_err, daily_drive_hours_err, drive_hours_err,
    logs,
    \* calculate_stop_points under calculate_stops_with_fallback
    cpc,                 \* position in the planner
    route_geometry,      \* the planner's route_geometry argument
    stops,               \* the planner's list of stops so far
    sequence,            \* the next sequence number
    loop_i,              \* the loop variable of the fuel and the rest loop
    idx,                 \* the route index of the loop's current stop (0-based)
    coords,              \* the route coordinate of the loop's current stop
    poi_tried,           \* the find_poi_near_location calls made for that stop
    raised_in,           \* the step whose exception the handler caught
    plan_result,         \* what calculate_stops_with_fallback returned
    cache,               \* the keys the geocode cache holds
    calls,               \* the services called so far: geocode, route, poi
    \* TripCreateView.post
    ppc,                 \* position in the request handler
    retry_count,
    slept,               \* the seconds of each time.sleep so far
    route_data,          \* what get_route_with_waypoints returned, if it did
    post_stops,          \* the handler's `stops`
    trip_saved,          \* serializer.save() has stored the Trip
    response,
    \* find_poi_near_location
    fpc,                 \* position in the POI search
    keywords,            \* the keywords argument
    keyword,             \* the index of the keyword being tried (1-based)
    attempt,             \* the attempt of that keyword (0-based)
    tries,               \* the attempts started so far, by keyword index
    searches,            \* the search requests the call has sent so far
    reverses,            \* the reverse-geocode requests it has sent so far
    poi_keys,            \* the keywords whose POI cache entry is live
    rev_key,             \* the reverse-geocode cache entry is live
    poi_result,          \* what the call returned
    call,                \* the call in progress: 1, or 2 for the repeated call
    first_poi,           \* what the first call returned
    \* two runs of planning plus simulation on one trip
    now,                 \* the wall-clock day of datetime.now()
    providers,           \* the services' responses, when they are fixed
    run,                 \* the run in progress: 1 or 2
    first_stops,         \* the stops the first run returned
    first_logs           \* the LogDay list of the first run

eld_vars == <<epc, trip_stops, current_cycle_used, i, day,
              current_hour, odometer, daily_drive_hours, drive_hours,
              current_hour_err, daily_drive_hours_err, drive_hours_err, logs>>
plan_vars == <<cpc, route_geometry, stops, sequence, loop_i, idx, coords,
               poi_tried, raised_in, plan_result, cache, calls>>
post_vars == <<ppc, retry_count, slept, route_data, post_stops, trip_saved,
               response>>
poi_vars == <<fpc, keywords, keyword, attempt, tries, searches, reverses,
              poi_keys, rev_key, poi_result, call, first_poi>>
run_vars == <<now, providers, run, first_stops, first_logs>>
vars == <<eld_vars, plan_vars, post_vars, poi_vars, run_vars, total_miles>>
\* what the simulator, the planner, the request handler and the POI search
\* leave alone
NotEld == <<plan_vars, post_vars, poi_vars, run_vars>>
NotPlan == <<eld_vars, post_vars, poi_vars, run_vars>>
NotPost == <<poi_vars, run_vars>>
NotPoi == <<eld_vars, plan_vars, post_vars, run_vars, total_miles>>

\* ------------------------------------------------------------------ helpers
Min(a, b) == IF a <= b THEN a ELSE b
Max(a, b) == IF a >= b THEN a ELSE b
Abs(a) == IF a >= 0 THEN a ELSE 0 - a

RECURSIVE SumSeq(_)
SumSeq(s) == IF s = << >> THEN 0 ELSE Head(s) + SumSeq(Tail(s))

\* round(num/den) to the nearest integer, ties to even (Python's round)
RoundDiv(num, den) ==
    LET q == num \div den
        r == num % den
    IN  IF 2 * r < den THEN q
        ELSE IF 2 * r > den THEN q + 1
        ELSE IF q % 2 = 0 THEN q ELSE q + 1

\* geopy's great_circle(a, b).miles for two points of one meridian
great_circle(a, b) == Abs(a[1] - b[1])

\* stop.metadata.get(key) is there (and, a coordinate pair or True, truthy)
MetaHas(stop, key) == key \in DOMAIN stop.metadata

\* ------------------------------------------------------------------ simulator

\* segment_miles / AVERAGE_SPEED as a fraction <<num, den>> of hundredths of
\* an hour: great-circle miles when both stops have coordinates, else an
\* equal share of total_miles
SegmentHours(stop_list, k, total) ==
    LET prev == stop_list[k - 1]
        stop == stop_list[k]
    IN  IF MetaHas(prev, "coordinates") /\ MetaHas(stop, "coordinates")
        THEN <<great_circle(prev.metadata.coordinates, stop.metadata.coordinates)
                 * HoursScale,
               MilesScale * AVERAGE_SPEED>>
        ELSE <<total * HoursScale,
               MilesScale * AVERAGE_SPEED * (Len(stop_list) - 1)>>

\* drive_hours = round(segment_miles / AVERAGE_SPEED, 2)
DriveHoursOneDecimal(stop_list, k, total) ==
    LET f == SegmentHours(stop_list, k, total)
    IN  10 * RoundDiv(f[1], 10 * f[2])
DriveHours(stop_list, k, total) ==
    LET f == SegmentHours(stop_list, k, total)
    IN  RoundDiv(f[1], f[2])

\* Python floats.  Every float of the simulator is a sum of two-decimal
\* numbers, so it lies within rounding error of a two-decimal number: the one
\* round(x, 2) shows.  The model keeps that number, in hundredths, and beside
\* it the sign of the float's deviation from it: -1, 0 or 1.  A float is a
\* pair <<value, err>>.  Only a multiple of a quarter is a binary fraction;
\* a sum or difference with an operand that is not exact may come out just
\* below, at, or just above its decimal value.  The sign is kept where it can
\* decide a comparison, at the multiples of a quarter.
Inexact(x) == x[1] % (HoursScale \div 4) # 0 \/ x[2] # 0
FloatErrs(inexact, value) ==
    IF inexact /\ value % (HoursScale \div 4) = 0 THEN {0 - 1, 0, 1} ELSE {0}
FloatLess(x, y) == x[1] < y[1] \/ (x[1] = y[1] /\ x[2] < y[2])
\* x >= t and x > t for a float x and a whole number of hours t
FloatGeq(x, t) == ~FloatLess(x, <<t * HoursScale, 0>>)
FloatGt(x, t) == FloatLess(<<t * HoursScale, 0>>, x)

\* if daily_drive_hours >= 11 or current_hour >= 14
NewDayNeeded(daily, hour) ==
    FloatGeq(daily, DailyDriveLimit) \/ FloatGeq(hour, DutyWindowLimit)

\* max_drive_today = min(11 - daily_drive_hours, drive_hours), to two decimals
MaxDriveTodayWholeCap(daily, remaining) == DailyDriveLimit * HoursScale - daily
MaxDriveToday(daily, remaining) ==
    Min(DailyDriveLimit * HoursScale - daily, remaining)

\* whether min() picked a float 11 - daily_drive_hours (cap) smaller than
\* the float drive_hours: decided by the decimal values when they differ;
\* two floats of one decimal value are equal when both are exact, and else
\* either may be the smaller
Capped(cap, remaining) ==
    IF cap[1] < remaining[1] THEN {TRUE}
    ELSE IF cap[1] > remaining[1] THEN {FALSE}
    ELSE IF Inexact(cap) \/ Inexact(remaining) THEN {TRUE, FALSE}
    ELSE {FALSE}

\* odometer += max_drive_today * AVERAGE_SPEED
OdometerAfterChunkOnly(odo, chunk) == chunk * AVERAGE_SPEED
OdometerAfter(odo, chunk) == odo + chunk * AVERAGE_SPEED

\* if daily_drive_hours >= 8
BreakNeededAtDailyLimit(daily) == FloatGeq(daily, DailyDriveLimit)
BreakNeeded(daily) == FloatGeq(daily, BreakAfterHours)

LogDay(d, events, odo) ==
    [day |-> d, date |-> now + (d - 1), events |-> events, odometer |-> odo]

\* remaining_cycle_hours <= 0
CycleExceededStrict(used) == MAX_CYCLE_HOURS - used < 0
CycleExceededEarly(used) == MAX_CYCLE_HOURS - used <= 1
CycleExceeded(used) == MAX_CYCLE_HOURS - used <= 0

\* remaining_cycle_hours <= 0: raise ValueError; else initialise the loop
EldStart ==
    /\ epc = "start"
    /\ IF CycleExceeded(current_cycle_used)
       THEN /\ epc' = "raised"
            /\ UNCHANGED <<i, day, current_hour, odometer, daily_drive_hours,
                           current_hour_err, daily_drive_hours_err>>
       ELSE /\ epc' = IF Len(trip_stops) = 0 THEN "done" ELSE "segment"
            /\ i' = 1
            /\ day' = 1
            /\ current_hour' = 0
            /\ current_hour_err' = 0
            /\ odometer' = 0
            /\ daily_drive_hours' = 0
            /\ daily_drive_hours_err' = 0
    /\ UNCHANGED <<trip_stops, current_cycle_used, total_miles, drive_hours,
                   drive_hours_err, logs>>
    /\ UNCHANGED NotEld

\* the head of one for-iteration: the distance from the previous stop
EldSegment ==
    /\ epc = "segment"
    /\ IF i > 1
       THEN LET h == DriveHours(trip_stops, i, total_miles)
            IN  /\ drive_hours' = h
                /\ epc' = IF h > 0 THEN "drive" ELSE "stop"
       ELSE /\ drive_hours' = 0
            /\ epc' = "stop"
    /\ drive_hours_err' = 0
    /\ UNCHANGED <<trip_stops, current_cycle_used, total_miles, i, day,
                   current_hour, odometer, daily_drive_hours, current_hour_err,
                   daily_drive_hours_err, logs>>
    /\ UNCHANGED NotEld

\* one iteration of `while drive_hours > 0` up to the record of its driving
\* Event: the new-day test, the chunk, the LogDay appended
EldDrive ==
    /\ epc = "drive"
    /\ FloatGt(<<drive_hours, drive_hours_err>>, 0)
    /\ LET roll == NewDayNeeded(<<daily_drive_hours, daily_drive_hours_err>>,
                                <<current_hour, current_hour_err>>)
           logs1 == IF roll THEN Append(logs, LogDay(day, << >>, odometer)) ELSE logs
           day1 == IF roll THEN day + 1 ELSE day
           hour1 == IF roll THEN <<0, 0>> ELSE <<current_hour, current_hour_err>>
           daily1 == IF roll THEN <<0, 0>> ELSE <<daily_drive_hours, daily_drive_hours_err>>
           remaining == <<drive_hours, drive_hours_err>>
           cap == <<DailyDriveLimit * HoursScale - daily1[1], daily1[2]>>
           max_drive_today == MaxDriveToday(daily1[1], drive_hours)
           event_start == hour1[1]
           event_end == hour1[1] + max_drive_today
           left == drive_hours - max_drive_today
           odometer2 == OdometerAfter(odometer, max_drive_today)
           driving == [type |-> "driving", start |-> event_start,
                       end |-> event_end, location |-> <<"Driving to", 0>>,
                       to |-> trip_stops[i].location]
       IN  \E capped \in Capped(cap, remaining) :
             LET moved == IF capped THEN Inexact(cap) ELSE Inexact(remaining)
             IN  /\ day' = day1
                 /\ odometer' = odometer2
                 /\ current_hour' = event_end
                 /\ current_hour_err' \in FloatErrs(Inexact(hour1) \/ moved, event_end)
                 /\ drive_hours' = left
                 \* x - x is 0.0; a cap that is the smaller float of two
                 \* with one decimal value leaves a positive remainder
                 /\ drive_hours_err' \in
                       IF ~capped THEN {0}
                       ELSE IF left = 0 THEN {1}
                       ELSE FloatErrs(Inexact(remaining) \/ moved, left)
                 /\ daily_drive_hours' = daily1[1] + max_drive_today
                 /\ daily_drive_hours_err' \in
                       FloatErrs(Inexact(daily1) \/ moved, daily1[1] + max_drive_today)
                 /\ logs' = Append(logs1, LogDay(day1, <<driving>>, odometer2))
    /\ epc' = "break"
    /\ UNCHANGED <<trip_stops, current_cycle_used, total_miles, i>>
    /\ UNCHANGED NotEld

\* the rest of the iteration: `if daily_drive_hours >= 8`, the rest Event
\* appended to the last record, and the loop test
EldBreak ==
    /\ epc = "break"
    /\ IF BreakNeeded(<<daily_drive_hours, daily_drive_hours_err>>)
       THEN LET n == Len(logs)
                rest == [type |-> "on_duty", start |-> current_hour,
                         end |-> current_hour + HoursScale \div 2,
                         location |-> <<"Mandatory 30-minute rest", 0>>]
            IN  /\ logs' = [logs EXCEPT ![n].events = Append(@, rest)]
                /\ current_hour' = current_hour + HoursScale \div 2
                /\ current_hour_err' \in
                      FloatErrs(Inexact(<<current_hour, current_hour_err>>),
                                current_hour + HoursScale \div 2)
                /\ daily_drive_hours' = 0
                /\ daily_drive_hours_err' = 0
       ELSE UNCHANGED <<logs, current_hour, current_hour_err, daily_drive_hours,
                        daily_drive_hours_err>>
    /\ epc' = IF FloatGt(<<drive_hours, drive_hours_err>>, 0) THEN "drive" ELSE "stop"
    /\ UNCHANGED <<trip_stops, current_cycle_used, total_miles, i, day, odometer,
                   drive_hours, drive_hours_err>>
    /\ UNCHANGED NotEld

\* the stop's own event, then the next stop or the return
EldStop ==
    /\ epc = "stop"
    /\ LET stop == trip_stops[i]
           stop_duration == (stop.duration_minutes * HoursScale) \div 60
           hour == <<current_hour, current_hour_err>>
           ended == current_hour + stop_duration
       IN  \E ended_err \in FloatErrs(Inexact(hour) \/ Inexact(<<stop_duration, 0>>),
                                      ended) :
             LET roll == FloatGt(<<ended, ended_err>>, HoursPerDay)
                 day1 == IF roll THEN day + 1 ELSE day
                 hour1 == IF roll THEN 0 ELSE current_hour
                 event == [type |-> stop.stop_type, start |-> hour1,
                           end |-> hour1 + stop_duration, location |-> stop.location]
             IN  /\ day' = day1
                 /\ daily_drive_hours' = IF roll THEN 0 ELSE daily_drive_hours
                 /\ daily_drive_hours_err' = IF roll THEN 0 ELSE daily_drive_hours_err
                 /\ logs' = Append(logs, LogDay(day1, <<event>>, odometer))
                 /\ current_hour' = hour1 + stop_duration
                 /\ current_hour_err' = IF roll THEN 0 ELSE ended_err
    /\ i' = i + 1
    /\ epc' = IF i < Len(trip_stops) THEN "segment" ELSE "done"
    /\ UNCHANGED <<trip_stops, current_cycle_used, total_miles, odometer, drive_hours,
                   drive_hours_err>>
    /\ UNCHANGED NotEld

\* ------------------------------------------------------------------ planner

\* The addresses of a trip are "current", "pickup" and "dropoff"
\* (trip.current_location, trip.pickup_location, trip.dropoff_location).

\* the coordinate the geocoder gives an address: (lat, lon)
GeocodeOf(address) ==
    IF address = "current" THEN <<0, Meridian>>
    ELSE IF address = "pickup" THEN <<PosStep, Meridian>>
    ELSE <<2 * PosStep, Meridian>>

\* geocode_location: a live cache entry is returned; otherwise the geocoder is
\* asked, and answers ("ok", cached for a day) or fails ("fail", ValueError).
\* An entry the cache has dropped is asked for again.
GeocodeOutcomes(address) ==
    (IF address \in cache THEN {"hit"} ELSE {})
    \cup (IF providers.fixed THEN {providers.geocode} ELSE {"ok", "fail"})

CacheAfter(c, address, outcome) ==
    IF outcome = "hit" THEN c
    ELSE IF outcome = "ok" THEN c \cup {address}
    ELSE c \ {address}

\* a route_geometry of None
NoGeometry == [none |-> TRUE]

\* route_coords[idx][::-1]
Reversed(p) == <<p[2], p[1]>>

\* `not route_geometry or 'coordinates' not in route_geometry`, then
\* `len(route_coords) < 2`
GeometryInvalid(g) ==
    \/ g = NoGeometry
    \/ "coordinates" \notin DOMAIN g
    \/ Len(g.coordinates) < 2

\* fuel_needed = int(total_miles // FUEL_INTERVAL)
FuelNeeded(total) == total \div (FUEL_INTERVAL * MilesScale)

\* int(estimated_drive_hours // REST_BREAK_INTERVAL)
RestNeeded(total) ==
    total \div (AVERAGE_SPEED * REST_BREAK_INTERVAL * MilesScale)

\* mile_marker = i * FUEL_INTERVAL; break_miles = i * REST_BREAK_INTERVAL * AVERAGE_SPEED
FuelMileMarker(k) == k * FUEL_INTERVAL
BreakMiles(k) == k * REST_BREAK_INTERVAL * AVERAGE_SPEED

\* mile_marker >= total_miles * 0.95
FuelTooCloseAtRestMargin(mile_marker, total) ==
    mile_marker * MilesScale * 100 >= total * 90
FuelTooClose(mile_marker, total) ==
    mile_marker * MilesScale * 100 >= total * 95

\* break_miles >= total_miles * 0.9
RestTooCloseAtFuelMargin(break_miles, total) ==
    break_miles * MilesScale * 100 >= total * 95
RestTooClose(break_miles, total) ==
    break_miles * MilesScale * 10 >= total * 9

\* idx = max(1, min(int(progress * len(route_coords)), len(route_coords) - 2)),
\* a 0-based index
RouteIndex(miles, total, n) ==
    Max(1, Min((miles * MilesScale * n) \div total, n - 2))

\* coords = route_coords[idx][::-1]
RouteCoords(miles, total, route_coords) ==
    Reversed(route_coords[RouteIndex(miles, total, Len(route_coords)) + 1])

\* the radius ladder
RadiiWidestFirst == <<40, 20, 10>>
Radii == <<10, 20, 40>>

\* one find_poi_near_location call: a POI, None, or an exception it lets
\* through (only RequestException, KeyError and ValueError are caught)
PoiOutcomes == {"hit", "none", "raise"}

\* what the calls of one radius ladder give, by radius
PoiResponses ==
    IF providers.fixed THEN {providers.poi} ELSE [1..Len(Radii) -> PoiOutcomes]

\* the POI a hit reports near coords
PoiNear(at) ==
    [name |-> <<"poi", at[1]>>, address |-> <<"addr", at[1]>>,
     coordinates |-> <<at[1] + PoiShift, at[2]>>]

\* the calls made up to the r-th radius: the radius and what the call gave
Tried(res, r) == [k \in 1..r |-> [radius |-> Radii[k], outcome |-> res[k]]]

\* for radius in [10, 20, 40]: poi = find_poi_near_location(...); if poi: break
\* (`found` tells whether poi is a POI; `poi` is read only when it is)
RECURSIVE Ladder(_, _, _)
Ladder(res, at, r) ==
    IF r > Len(Radii)
    THEN [found |-> FALSE, poi |-> PoiNear(at), radius |-> Radii[Len(Radii)],
          raised |-> FALSE, tried |-> Tried(res, Len(Radii))]
    ELSE IF res[r] = "raise"
    THEN [found |-> FALSE, poi |-> PoiNear(at), radius |-> Radii[r],
          raised |-> TRUE, tried |-> Tried(res, r)]
    ELSE IF res[r] = "hit"
    THEN [found |-> TRUE, poi |-> PoiNear(at), radius |-> Radii[r],
          raised |-> FALSE, tried |-> Tried(res, r)]
    ELSE Ladder(res, at, r + 1)

Stop(location, stop_type, duration_minutes, seq, metadata) ==
    [location |-> location, stop_type |-> stop_type,
     duration_minutes |-> duration_minutes, sequence |-> seq, metadata |-> metadata]

FuelStop(k, seq, at, l) ==
    Stop(IF l.found THEN l.poi.name ELSE <<"Fuel stop #", k>>, "fuel", 30, seq,
         [coordinates |-> IF l.found THEN l.poi.coordinates ELSE at,
          address |-> IF l.found THEN l.poi.address ELSE <<"", 0>>,
          estimated_mileage |-> FuelMileMarker(k),
          purpose |-> <<"Fuel stop #", k>>,
          is_fallback |-> ~l.found,
          search_radius_km |-> IF l.found THEN l.radius ELSE NoRadius])

RestStop(k, seq, at, l) ==
    Stop(IF l.found THEN l.poi.name ELSE <<"Rest stop #", k>>, "rest", 30, seq,
         [coordinates |-> IF l.found THEN l.poi.coordinates ELSE at,
          address |-> IF l.found THEN l.poi.address ELSE <<"", 0>>,
          purpose |-> <<"Mandatory rest break #", k>>,
          is_fallback |-> ~l.found,
          search_radius_km |-> IF l.found THEN l.radius ELSE NoRadius])

\* the except branch of calculate_stop_points: two stops, direct geocodes
HandlerStops ==
    <<Stop(<<"pickup", 0>>, "pickup", 60, 1, [coordinates |-> GeocodeOf("pickup")]),
      Stop(<<"dropoff", 0>>, "dropoff", 60, 2, [coordinates |-> GeocodeOf("dropoff")])>>

\* TripCreateView.create_basic_trip_stops
create_basic_trip_stops_same_sequence ==
    <<Stop(<<"pickup", 0>>, "pickup", 60, 1,
           [purpose |-> "Load pickup (fallback)", is_fallback |-> TRUE]),
      Stop(<<"dropoff", 0>>, "dropoff", 60, 1,
           [purpose |-> "Unload delivery (fallback)", is_fallback |-> TRUE])>>
create_basic_trip_stops ==
    <<Stop(<<"pickup", 0>>, "pickup", 60, 1,
           [purpose |-> "Load pickup (fallback)", is_fallback |-> TRUE]),
      Stop(<<"dropoff", 0>>, "dropoff", 60, 2,
           [purpose |-> "Unload delivery (fallback)", is_fallback |-> TRUE])>>

\* sorted(stops, key=lambda x: x.sequence): a stable insertion sort
RECURSIVE InsertBySequence(_, _)
InsertBySequence(s, x) ==
    IF s = << >> THEN <<x>>
    ELSE IF s[Len(s)].sequence <= x.sequence THEN Append(s, x)
    ELSE Append(InsertBySequence(SubSeq(s, 1, Len(s) - 1), x), s[Len(s)])

RECURSIVE SortedBySequence(_)
SortedBySequence(s) ==
    IF s = << >> THEN << >>
    ELSE InsertBySequence(SortedBySequence(SubSeq(s, 1, Len(s) - 1)), s[Len(s)])

\* calculate_stops_with_fallback: fewer than 2 stops, or an exception, gives
\* the basic stops
WithFallback(result) ==
    IF Len(result) < 2 THEN create_basic_trip_stops ELSE result

\* an exception inside the try block: control goes to the except branch
RaiseIn(step) ==
    /\ cpc' = "handler"
    /\ raised_in' = step

\* the geometry checks that open the try block
PlanStart ==
    /\ cpc = "start"
    /\ IF GeometryInvalid(route_geometry)
       THEN RaiseIn("geometry")
       ELSE cpc' = "pickup" /\ UNCHANGED raised_in
    /\ UNCHANGED <<route_geometry, stops, sequence, loop_i, idx, coords,
                   poi_tried, plan_result, cache, calls, total_miles>>
    /\ UNCHANGED NotPlan

\* 1. the pickup stop
PlanPickup ==
    /\ cpc = "pickup"
    /\ calls' = calls \cup {"geocode"}
    /\ \E o \in GeocodeOutcomes("pickup") :
          /\ cache' = CacheAfter(cache, "pickup", o)
          /\ IF o = "fail"
             THEN RaiseIn("pickup") /\ UNCHANGED <<stops, sequence, loop_i>>
             ELSE /\ stops' = Append(stops,
                        Stop(<<"pickup", 0>>, "pickup", 60, sequence,
                             [coordinates |-> GeocodeOf("pickup"),
                              purpose |-> "Load pickup"]))
                  /\ sequence' = sequence + 1
                  /\ loop_i' = 1
                  /\ cpc' = "fuel"
                  /\ UNCHANGED raised_in
    /\ UNCHANGED <<route_geometry, idx, coords, poi_tried, plan_result,
                   total_miles>>
    /\ UNCHANGED NotPlan

\* 2. one iteration of the fuel loop, or its end
PlanFuel ==
    /\ cpc = "fuel"
    /\ IF \/ loop_i > FuelNeeded(total_miles)
          \/ FuelTooClose(FuelMileMarker(loop_i), total_miles)
       THEN /\ cpc' = "rest"
            /\ loop_i' = 1
            /\ UNCHANGED <<stops, sequence, raised_in, idx, coords, poi_tried,
                           calls>>
       ELSE \E res \in PoiResponses :
              LET at == RouteCoords(FuelMileMarker(loop_i), total_miles,
                                    route_geometry.coordinates)
                  l == Ladder(res, at, 1)
              IN  /\ idx' = RouteIndex(FuelMileMarker(loop_i), total_miles,
                                       Len(route_geometry.coordinates))
                  /\ coords' = at
                  /\ poi_tried' = l.tried
                  /\ calls' = calls \cup {"poi"}
                  /\ IF l.raised
                     THEN RaiseIn("fuel") /\ UNCHANGED <<stops, sequence, loop_i>>
                     ELSE /\ stops' = Append(stops, FuelStop(loop_i, sequence, at, l))
                          /\ sequence' = sequence + 1
                          /\ loop_i' = loop_i + 1
                          /\ UNCHANGED <<cpc, raised_in>>
    /\ UNCHANGED <<route_geometry, plan_result, cache, total_miles>>
    /\ UNCHANGED NotPlan

\* 3. one iteration of the rest loop, or its end
PlanRest ==
    /\ cpc = "rest"
    /\ IF \/ loop_i > RestNeeded(total_miles)
          \/ RestTooClose(BreakMiles(loop_i), total_miles)
       THEN /\ cpc' = "dropoff"
            /\ UNCHANGED <<stops, sequence, loop_i, raised_in, idx, coords,
                           poi_tried, calls>>
       ELSE \E res \in PoiResponses :
              LET at == RouteCoords(BreakMiles(loop_i), total_miles,
                                    route_geometry.coordinates)
                  l == Ladder(res, at, 1)
              IN  /\ idx' = RouteIndex(BreakMiles(loop_i), total_miles,
                                       Len(route_geometry.coordinates))
                  /\ coords' = at
                  /\ poi_tried' = l.tried
                  /\ calls' = calls \cup {"poi"}
                  /\ IF l.raised
                     THEN RaiseIn("rest") /\ UNCHANGED <<stops, sequence, loop_i>>
                     ELSE /\ stops' = Append(stops, RestStop(loop_i, sequence, at, l))
                          /\ sequence' = sequence + 1
                          /\ loop_i' = loop_i + 1
                          /\ UNCHANGED <<cpc, raised_in>>
    /\ UNCHANGED <<route_geometry, plan_result, cache, total_miles>>
    /\ UNCHANGED NotPlan

\* 4. the dropoff stop, and the sorted list returned through
\* calculate_stops_with_fallback
PlanDropoff ==
    /\ cpc = "dropoff"
    /\ calls' = calls \cup {"geocode"}
    /\ \E o \in GeocodeOutcomes("dropoff") :
          /\ cache' = CacheAfter(cache, "dropoff", o)
          /\ IF o = "fail"
             THEN RaiseIn("dropoff") /\ UNCHANGED <<stops, plan_result>>
             ELSE /\ stops' = Append(stops,
                        Stop(<<"dropoff", 0>>, "dropoff", 60, sequence,
                             [coordinates |-> GeocodeOf("dropoff"),
                              purpose |-> "Unload delivery"]))
                  /\ plan_result' = WithFallback(SortedBySequence(stops'))
                  /\ cpc' = "returned"
                  /\ UNCHANGED raised_in
    /\ UNCHANGED <<route_geometry, sequence, loop_i, idx, coords, poi_tried,
                   total_miles>>
    /\ UNCHANGED NotPlan

\* the except branch: two stops with direct geocodes; a geocode that fails
\* here leaves calculate_stop_points, and calculate_stops_with_fallback
\* returns the basic stops
PlanHandler ==
    /\ cpc = "handler"
    /\ calls' = calls \cup {"geocode"}
    /\ \E o1 \in GeocodeOutcomes("pickup") :
          IF o1 = "fail"
          THEN /\ cache' = CacheAfter(cache, "pickup", o1)
               /\ plan_result' = create_basic_trip_stops
          ELSE \E o2 \in GeocodeOutcomes("dropoff") :
                 /\ cache' = CacheAfter(CacheAfter(cache, "pickup", o1), "dropoff", o2)
                 /\ plan_result' = IF o2 = "fail"
                                   THEN create_basic_trip_stops
                                   ELSE WithFallback(HandlerStops)
    /\ cpc' = "returned"
    /\ UNCHANGED <<route_geometry, stops, sequence, loop_i, idx, coords,
                   poi_tried, raised_in, total_miles>>
    /\ UNCHANGED NotPlan

\* ------------------------------------------------------------------ two runs

\* the wall clock passes midnight: datetime.now() is a day later
Midnight ==
    /\ now < MaxMidnights
    /\ now' = now + 1
    /\ UNCHANGED <<providers, run, first_stops, first_logs>>
    /\ UNCHANGED <<eld_vars, plan_vars, post_vars, poi_vars, total_miles>>

\* Stop.objects.bulk_create(stops), then generate_eld_logs_with_stops on the
\* stored stops
RunPersist ==
    /\ cpc = "returned"
    /\ epc = "idle"
    /\ trip_stops' = SortedBySequence(plan_result)
    /\ epc' = "start"
    /\ UNCHANGED <<current_cycle_used, i, day, current_hour, odometer,
                   daily_drive_hours, drive_hours, current_hour_err,
                   daily_drive_hours_err, drive_hours_err, logs>>
    /\ UNCHANGED <<plan_vars, post_vars, poi_vars, run_vars, total_miles>>

\* the first run has ended: its stops and logs are kept, and the second run
\* starts on the same trip and route, with what is left of the cache
RunAgain ==
    /\ run = 1
    /\ cpc = "returned"
    /\ epc \in {"done", "raised"}
    /\ run' = 2
    /\ first_stops' = plan_result
    /\ first_logs' = logs
    /\ cpc' = "start"
    /\ stops' = << >>
    /\ sequence' = 1
    /\ loop_i' = 0
    /\ idx' = NoIndex
    /\ coords' = NoCoords
    /\ poi_tried' = << >>
    /\ raised_in' = None
    /\ plan_result' = << >>
    /\ cache' \in {cache, {}}
    /\ epc' = "idle"
    /\ trip_stops' = << >>
    /\ i' = 0
    /\ day' = 0
    /\ current_hour' = 0
    /\ odometer' = 0
    /\ daily_drive_hours' = 0
    /\ drive_hours' = 0
    /\ current_hour_err' = 0
    /\ daily_drive_hours_err' = 0
    /\ drive_hours_err' = 0
    /\ logs' = << >>
    /\ UNCHANGED <<route_geometry, calls, current_cycle_used, now, providers,
                   total_miles>>
    /\ UNCHANGED <<post_vars, poi_vars>>

\* ------------------------------------------------------------------ POI search

\* max_retries of find_poi_near_location
PoiMaxRetries == 3

\* the return value None
NotFound == [found |-> FALSE, keyword |-> 0]

\* geolocator.reverse, unless the cache holds the location: a location, None,
\* or a geopy error (GeocoderTimedOut, GeocoderUnavailable, ...), which is
\* none of RequestException, KeyError, ValueError
ReverseOutcomes ==
    IF rev_key THEN {"cached"} ELSE {"location", "null", "error"}

\* requests.get on the search endpoint: 200 with a result, 200 with an empty
\* list, 429, another status, or a RequestException
SearchOutcomes == {"found", "empty", "rate_limited", "other_status", "request_error"}

\* for keyword in keywords: the POI cache lookup that opens an iteration, and
\* `return None` after the last one
PoiKeyword ==
    /\ fpc = "keyword"
    /\ IF keyword > Len(keywords)
       THEN /\ fpc' = "returned"
            /\ poi_result' = NotFound
            /\ UNCHANGED attempt
       ELSE IF keywords[keyword] \in poi_keys
       THEN /\ fpc' = "returned"
            /\ poi_result' = [found |-> TRUE, keyword |-> keywords[keyword]]
            /\ UNCHANGED attempt
       ELSE /\ fpc' = "attempt"
            /\ attempt' = 0
            /\ UNCHANGED poi_result
    /\ UNCHANGED <<keywords, keyword, tries, searches, reverses, poi_keys,
                   rev_key, call, first_poi>>
    /\ UNCHANGED NotPoi

\* for attempt in range(max_retries): one attempt, or the end of the range
PoiAttempt ==
    /\ fpc = "attempt"
    /\ IF attempt >= PoiMaxRetries
       THEN /\ keyword' = keyword + 1
            /\ fpc' = "keyword"
            /\ UNCHANGED <<attempt, tries, searches, reverses, poi_keys, rev_key,
                           poi_result>>
       ELSE /\ tries' = [tries EXCEPT ![keyword] = @ + 1]
            /\ \E rev \in ReverseOutcomes :
                  /\ reverses' = IF rev = "cached" THEN reverses ELSE reverses + 1
                  /\ IF rev = "error"
                     THEN /\ fpc' = "raised"
                          /\ UNCHANGED <<attempt, searches, poi_keys, rev_key,
                                         poi_result>>
                     ELSE IF rev = "null"
                     THEN /\ attempt' = attempt + 1
                          /\ UNCHANGED <<fpc, searches, poi_keys, rev_key,
                                         poi_result>>
                     ELSE /\ rev_key' = TRUE
                          /\ searches' = searches + 1
                          /\ \E o \in SearchOutcomes :
                                IF o = "found"
                                THEN /\ poi_keys' = poi_keys \cup {keywords[keyword]}
                                     /\ poi_result' = [found |-> TRUE,
                                                       keyword |-> keywords[keyword]]
                                     /\ fpc' = "returned"
                                     /\ UNCHANGED attempt
                                ELSE /\ attempt' = attempt + 1
                                     /\ UNCHANGED <<fpc, poi_keys, poi_result>>
            /\ UNCHANGED keyword
    /\ UNCHANGED <<keywords, call, first_poi>>
    /\ UNCHANGED NotPoi

\* the call has returned; it is made again with the same coords, keywords
\* and radius_km while the cache entries it left are live
PoiAgain ==
    /\ fpc = "returned"
    /\ call = 1
    /\ call' = 2
    /\ first_poi' = poi_result
    /\ fpc' = "keyword"
    /\ keyword' = 1
    /\ attempt' = 0
    /\ tries' = [k \in 1..Len(keywords) |-> 0]
    /\ searches' = 0
    /\ reverses' = 0
    /\ poi_result' = NotFound
    /\ UNCHANGED <<keywords, poi_keys, rev_key>>
    /\ UNCHANGED NotPoi

\* ------------------------------------------------------------------ request handler

\* max_retries of TripCreateView.post and of geocode_location_with_retry
PostMaxRetries == 3
GeocodeMaxRetries == 3

\* the distance estimate_distance falls back to
FallbackMiles == 500

\* TripSerializer.validate_current_cycle_used
ValidCycleNonNegative(value) == ~(value < 0)
ValidCycle(value) == ~(value < 0) /\ ~(value > MAX_CYCLE_HOURS)

NoRoute == [none |-> TRUE]
NoResponse == [status |-> "none"]

\* geocode_location_with_retry: the attempts' outcomes, tried in order until
\* one is not a failure; the last failure is raised
GeocodeAttempts == [1..GeocodeMaxRetries -> {"ok", "fail"}]
WithRetry(attempts) ==
    IF \E k \in 1..GeocodeMaxRetries : attempts[k] = "ok" THEN "ok" ELSE "fail"

\* the three geocodes of an attempt and of estimate_distance, in order
\* current, pickup, dropoff, the first failure ending them: <<result, cache>>
GeocodeAll(c, a1, a2, a3) ==
    IF WithRetry(a1) = "fail" THEN <<"fail", c \ {"current"}>>
    ELSE IF WithRetry(a2) = "fail" THEN <<"fail", (c \cup {"current"}) \ {"pickup"}>>
    ELSE IF WithRetry(a3) = "fail"
    THEN <<"fail", (c \cup {"current", "pickup"}) \ {"dropoff"}>>
    ELSE <<"ok", c \cup {"current", "pickup", "dropoff"}>>

\* estimate_distance: the two great-circle legs, or 500 when a geocode fails
estimate_distance(result) ==
    IF result = "ok"
    THEN great_circle(GeocodeOf("current"), GeocodeOf("pickup"))
         + great_circle(GeocodeOf("pickup"), GeocodeOf("dropoff"))
    ELSE FallbackMiles * MilesScale

\* the planner's inputs: a route of n points spread evenly over total miles,
\* each [lon, lat]
RouteOf(n, total) ==
    [k \in 1..n |-> <<Meridian, IF n > 1 THEN ((k - 1) * total) \div (n - 1) ELSE 0>>]

\* what the route service answers a request: a distance, and a route of one
\* point (too short) or of MaxRoute points
PostMiles == {0, PostMileSteps * MileStep}
PostGeometries(total) ==
    {[type |-> "LineString", coordinates |-> RouteOf(n, total)] : n \in {1, MaxRoute}}

\* serializer.is_valid() and serializer.save()
PostValidate ==
    /\ ppc = "request"
    /\ UNCHANGED NotPost
    /\ IF ValidCycle(current_cycle_used)
       THEN /\ trip_saved' = TRUE
            /\ ppc' = "attempt"
            /\ UNCHANGED response
       ELSE /\ response' = [status |-> "error", http |-> 400,
                            message |-> "Invalid data provided"]
            /\ ppc' = "responded"
            /\ UNCHANGED trip_saved
    /\ UNCHANGED <<retry_count, slept, route_data, post_stops, total_miles>>
    /\ UNCHANGED <<eld_vars, plan_vars>>

\* the three geocode_location_with_retry calls that open an attempt
PostGeocode ==
    /\ ppc = "attempt"
    /\ UNCHANGED NotPost
    /\ \E a1 \in GeocodeAttempts, a2 \in GeocodeAttempts, a3 \in GeocodeAttempts :
          LET g == GeocodeAll(cache, a1, a2, a3)
          IN  /\ cache' = g[2]
              /\ ppc' = IF g[1] = "ok" THEN "route" ELSE "except"
    /\ calls' = calls \cup {"geocode"}
    /\ UNCHANGED <<retry_count, slept, route_data, post_stops, trip_saved,
                   response, total_miles>>
    /\ UNCHANGED <<cpc, route_geometry, stops, sequence, loop_i, idx, coords,
                   poi_tried, raised_in, plan_result>>
    /\ UNCHANGED eld_vars

\* get_route_with_waypoints; when it answers, calculate_stops_with_fallback
\* is entered
PostRoute ==
    /\ ppc = "route"
    /\ UNCHANGED NotPost
    /\ calls' = calls \cup {"route"}
    /\ \/ /\ ppc' = "except"
          /\ UNCHANGED <<route_data, total_miles>>
          /\ UNCHANGED <<cpc, route_geometry, stops, sequence, loop_i, idx,
                         coords, poi_tried, raised_in, plan_result, cache>>
       \/ \E miles \in PostMiles : \E g \in PostGeometries(miles) :
             /\ route_data' = [distance_miles |-> miles, geometry |-> g]
             /\ total_miles' = miles
             /\ ppc' = "planning"
             /\ cpc' = "start"
             /\ route_geometry' = g
             /\ stops' = << >>
             /\ sequence' = 1
             /\ loop_i' = 0
             /\ idx' = NoIndex
             /\ coords' = NoCoords
             /\ poi_tried' = << >>
             /\ raised_in' = None
             /\ plan_result' = << >>
             /\ UNCHANGED cache
    /\ UNCHANGED <<retry_count, slept, post_stops, trip_saved, response>>
    /\ UNCHANGED eld_vars

\* stops = the planner's result; Stop.objects.bulk_create(stops), which the
\* database may refuse
PostBulkCreate ==
    /\ ppc = "planning"
    /\ UNCHANGED NotPost
    /\ cpc = "returned"
    /\ post_stops' = plan_result
    /\ \/ /\ trip_stops' = SortedBySequence(plan_result)
          /\ ppc' = "simulate"
       \/ /\ ppc' = "except"
          /\ UNCHANGED trip_stops
    /\ UNCHANGED <<retry_count, slept, route_data, trip_saved, response,
                   total_miles>>
    /\ UNCHANGED <<epc, current_cycle_used, i, day, current_hour, odometer,
                   daily_drive_hours, drive_hours, current_hour_err,
                   daily_drive_hours_err, drive_hours_err, logs>>
    /\ UNCHANGED plan_vars

\* the except branch of an attempt, and the loop test that follows `continue`
PostExcept ==
    /\ ppc = "except"
    /\ UNCHANGED NotPost
    /\ retry_count' = retry_count + 1
    /\ IF retry_count + 1 >= PostMaxRetries
       THEN /\ post_stops' = create_basic_trip_stops
            /\ calls' = calls \cup {"geocode"}
            /\ UNCHANGED slept
            /\ \E a1 \in GeocodeAttempts, a2 \in GeocodeAttempts, a3 \in GeocodeAttempts :
                  LET g == GeocodeAll(cache, a1, a2, a3)
                  IN  /\ cache' = g[2]
                      /\ total_miles' = estimate_distance(g[1])
       ELSE /\ slept' = Append(slept, 2 ^ (retry_count + 1))
            /\ UNCHANGED <<post_stops, total_miles, cache, calls>>
    /\ ppc' = IF retry_count + 1 < PostMaxRetries /\ route_data = NoRoute
              THEN "attempt" ELSE "simulate"
    /\ UNCHANGED <<route_data, trip_saved, response>>
    /\ UNCHANGED <<cpc, route_geometry, stops, sequence, loop_i, idx, coords,
                   poi_tried, raised_in, plan_result>>
    /\ UNCHANGED eld_vars

\* eld_logs = generate_eld_logs_with_stops(trip, total_miles)
PostSimulate ==
    /\ ppc = "simulate"
    /\ UNCHANGED NotPost
    /\ ppc' = "simulating"
    /\ epc' = "start"
    /\ UNCHANGED <<trip_stops, current_cycle_used, i, day, current_hour, odometer,
                   daily_drive_hours, drive_hours, current_hour_err,
                   daily_drive_hours_err, drive_hours_err, logs>>
    /\ UNCHANGED <<retry_count, slept, route_data, post_stops, trip_saved,
                   response, total_miles>>
    /\ UNCHANGED plan_vars

\* the success response, or the error response of the outer except branch
PostRespond ==
    /\ ppc = "simulating"
    /\ UNCHANGED NotPost
    /\ epc \in {"done", "raised"}
    /\ response' =
          IF epc = "raised"
          THEN [status |-> "error", http |-> 500,
                message |-> "Failed to create trip. Please try again."]
          ELSE [status |-> "success", http |-> 200,
                total_miles |-> total_miles,
                eld_logs |-> logs,
                route_geometry |-> IF route_data # NoRoute THEN route_data.geometry
                                   ELSE NoGeometry,
                stops |-> post_stops,
                warnings |-> IF retry_count >= PostMaxRetries
                             THEN <<"Used fallback data">> ELSE << >>]
    /\ ppc' = "responded"
    /\ UNCHANGED <<retry_count, slept, route_data, post_stops, trip_saved,
                   total_miles>>
    /\ UNCHANGED <<eld_vars, plan_vars>>

\* ------------------------------------------------------------------ inputs

Latitudes == {k * PosStep : k \in 0..MaxPos}
Coordinates == {<<lat, Meridian>> : lat \in Latitudes}
TotalMiles == {k * TotalStep : k \in 0..MaxTotal}
\* a stored trip's current_cycle_used passed validation: it is at most 70
Cycles == {MAX_CYCLE_HOURS - 1, MAX_CYCLE_HOURS}

\* stop types in sequence order: pickup, fuel stops, rest stops, dropoff
TypeAt(k, n) ==
    IF k = 1 THEN "pickup"
    ELSE IF k = n THEN "dropoff"
    ELSE IF k % 2 = 0 THEN "fuel" ELSE "rest"

DurationOf(type) == IF type \in {"pickup", "dropoff"} THEN 60 ELSE 30

Metadatas ==
    {[purpose |-> "p"]} \cup {[coordinates |-> c, purpose |-> "p"] : c \in Coordinates}

StopAt(k, n, m) ==
    [location |-> <<"stop", k>>, stop_type |-> TypeAt(k, n),
     duration_minutes |-> DurationOf(TypeAt(k, n)), sequence |-> k, metadata |-> m]

\* a stop list that brings the clock to 14.00 as a sum of floats that are
\* not exact: stops 0, 56.5, 575 and 725 miles along the meridian (1.13,
\* 10.37 and 3 hours of driving)
QuarterSumMiles == <<0, 5650, 57500, 72500>>
QuarterSumStops ==
    [k \in 1..4 |-> StopAt(k, 4, [coordinates |-> <<QuarterSumMiles[k], Meridian>>,
                                   purpose |-> "p"])]

\* a stop list whose second segment equals, in two decimals, what is left of
\* the 11 hours after the first, neither being an exact float: stops 0, 56
\* and 550 miles along the meridian (1.12 and 9.88 hours of driving)
CapSumMiles == <<0, 5600, 55000>>
CapSumStops ==
    [k \in 1..3 |-> StopAt(k, 3, [coordinates |-> <<CapSumMiles[k], Meridian>>,
                                   purpose |-> "p"])]

\* the stored stops of a trip, in sequence order: none (no bulk_create), or
\* pickup, ..., dropoff
StopLists ==
    UNION {{[k \in 1..n |-> StopAt(k, n, ms[k])] : ms \in [1..n -> Metadatas]}
           : n \in (0..MaxStops) \ {1}}

Geometries(total) ==
    {NoGeometry, [type |-> "LineString"]}
    \cup {[type |-> "LineString", coordinates |-> RouteOf(n, total)] : n \in 0..MaxRoute}

PlanMiles == {k * MileStep : k \in 0..MaxMileSteps}

\* the current_cycle_used of a request
PostCycles == {0 - 1, MAX_CYCLE_HOURS - 1, MAX_CYCLE_HOURS, MAX_CYCLE_HOURS + 1}

\* responses that are not fixed: every outcome is possible at every call
FreeProviders ==
    [fixed |-> FALSE, geocode |-> "ok", poi |-> [k \in 1..Len(Radii) |-> "none"]]

\* fixed responses: what the geocoder answers, and what the POI search gives
\* at each radius
FixedProviders ==
    {[fixed |-> TRUE, geocode |-> g, poi |-> p] :
        g \in {"ok", "fail"}, p \in [1..Len(Radii) -> PoiOutcomes]}

IdleRuns ==
    /\ now = 0
    /\ providers = FreeProviders
    /\ run = 1
    /\ first_stops = << >>
    /\ first_logs = << >>

IdlePoi ==
    /\ fpc = "idle"
    /\ keywords = << >>
    /\ keyword = 1
    /\ attempt = 0
    /\ tries = << >>
    /\ searches = 0
    /\ reverses = 0
    /\ poi_keys = {}
    /\ rev_key = FALSE
    /\ poi_result = NotFound
    /\ call = 1
    /\ first_poi = NotFound

IdlePost ==
    /\ ppc = "idle"
    /\ retry_count = 0
    /\ slept = << >>
    /\ route_data = NoRoute
    /\ post_stops = << >>
    /\ trip_saved = FALSE
    /\ response = NoResponse

IdleEld ==
    /\ epc = "idle"
    /\ trip_stops = << >>
    /\ current_cycle_used = 0
    /\ i = 0
    /\ day = 0
    /\ current_hour = 0
    /\ odometer = 0
    /\ daily_drive_hours = 0
    /\ drive_hours = 0
    /\ current_hour_err = 0
    /\ daily_drive_hours_err = 0
    /\ drive_hours_err = 0
    /\ logs = << >>

IdlePlan ==
    /\ cpc = "idle"
    /\ route_geometry = NoGeometry
    /\ stops = << >>
    /\ sequence = 1
    /\ loop_i = 0
    /\ idx = NoIndex
    /\ coords = NoCoords
    /\ poi_tried = << >>
    /\ raised_in = None
    /\ plan_result = << >>
    /\ cache = {}
    /\ calls = {}

InitPlan ==
    /\ cpc = "start"
    /\ total_miles \in PlanMiles
    /\ route_geometry \in Geometries(total_miles)
    /\ stops = << >>
    /\ sequence = 1
    /\ loop_i = 0
    /\ idx = NoIndex
    /\ coords = NoCoords
    /\ poi_tried = << >>
    /\ raised_in = None
    /\ plan_result = << >>
    /\ cache \in {{}, {"pickup", "dropoff"}}
    /\ calls = {}
    /\ IdleEld
    /\ IdlePost
    /\ IdlePoi
    /\ IdleRuns

NextPlan == PlanStart \/ PlanPickup \/ PlanFuel \/ PlanRest \/ PlanDropoff \/ PlanHandler

SpecPlan == InitPlan /\ [][NextPlan]_vars

InitEld ==
    /\ IdlePlan
    /\ IdlePost
    /\ IdlePoi
    /\ IdleRuns
    /\ epc = "start"
    /\ trip_stops \in StopLists \cup {QuarterSumStops, CapSumStops}
    /\ current_cycle_used \in Cycles
    /\ total_miles \in TotalMiles
    /\ i = 0
    /\ day = 0
    /\ current_hour = 0
    /\ odometer = 0
    /\ daily_drive_hours = 0
    /\ drive_hours = 0
    /\ current_hour_err = 0
    /\ daily_drive_hours_err = 0
    /\ drive_hours_err = 0
    /\ logs = << >>

NextEld == EldStart \/ EldSegment \/ EldDrive \/ EldBreak \/ EldStop \/ Midnight

SpecEld == InitEld /\ [][NextEld]_vars

\* the simulator runs until it returns or raises
SpecEldFair == InitEld /\ [][NextEld]_vars /\ WF_vars(NextEld)

InitPost ==
    /\ ppc = "request"
    /\ retry_count = 0
    /\ slept = << >>
    /\ route_data = NoRoute
    /\ post_stops = << >>
    /\ trip_saved = FALSE
    /\ response = NoResponse
    /\ total_miles = 0
    /\ IdlePlan
    /\ IdlePoi
    /\ IdleRuns
    /\ epc = "idle"
    /\ trip_stops = << >>
    /\ current_cycle_used \in PostCycles
    /\ i = 0
    /\ day = 0
    /\ current_hour = 0
    /\ odometer = 0
    /\ daily_drive_hours = 0
    /\ drive_hours = 0
    /\ current_hour_err = 0
    /\ daily_drive_hours_err = 0
    /\ drive_hours_err = 0
    /\ logs = << >>

NextPost ==
    \/ PostValidate \/ PostGeocode \/ PostRoute
    \/ PlanStart \/ PlanPickup \/ PlanFuel \/ PlanRest \/ PlanDropoff \/ PlanHandler
    \/ PostBulkCreate \/ PostExcept \/ PostSimulate
    \/ EldStart \/ EldSegment \/ EldDrive \/ EldBreak \/ EldStop
    \/ PostRespond
    \/ Midnight

SpecPost == InitPost /\ [][NextPost]_vars

\* the keyword lists of a call, the keywords numbered in list order
KeywordLists == {[k \in 1..n |-> k] : n \in 0..MaxKeywords}

InitPoi ==
    /\ fpc = "keyword"
    /\ keywords \in KeywordLists
    /\ keyword = 1
    /\ attempt = 0
    /\ tries = [k \in 1..Len(keywords) |-> 0]
    /\ searches = 0
    /\ reverses = 0
    /\ poi_keys \in SUBSET (1..MaxKeywords)
    /\ rev_key \in BOOLEAN
    /\ poi_result = NotFound
    /\ call = 1
    /\ first_poi = NotFound
    /\ IdleEld
    /\ IdlePlan
    /\ IdlePost
    /\ IdleRuns
    /\ total_miles = 0

NextPoi == PoiKeyword \/ PoiAttempt \/ PoiAgain

\* the call runs until it returns or raises
SpecPoi == InitPoi /\ [][NextPoi]_vars /\ WF_vars(NextPoi)

\* two runs on one trip: the route service's answer, a stored
\* current_cycle_used and fixed geocoder and POI responses; the cache holds
\* only what the geocoder has answered
InitRuns ==
    /\ cpc = "start"
    /\ total_miles \in PostMiles
    /\ route_geometry \in PostGeometries(total_miles)
    /\ stops = << >>
    /\ sequence = 1
    /\ loop_i = 0
    /\ idx = NoIndex
    /\ coords = NoCoords
    /\ poi_tried = << >>
    /\ raised_in = None
    /\ plan_result = << >>
    /\ providers \in FixedProviders
    /\ cache \in IF providers.geocode = "ok" THEN {{}, {"pickup", "dropoff"}} ELSE {{}}
    /\ calls = {}
    /\ epc = "idle"
    /\ trip_stops = << >>
    /\ current_cycle_used \in Cycles
    /\ i = 0
    /\ day = 0
    /\ current_hour = 0
    /\ odometer = 0
    /\ daily_drive_hours = 0
    /\ drive_hours = 0
    /\ current_hour_err = 0
    /\ daily_drive_hours_err = 0
    /\ drive_hours_err = 0
    /\ logs = << >>
    /\ now = 0
    /\ run = 1
    /\ first_stops = << >>
    /\ first_logs = << >>
    /\ IdlePost
    /\ IdlePoi

NextRuns ==
    \/ PlanStart \/ PlanPickup \/ PlanFuel \/ PlanRest \/ PlanDropoff \/ PlanHandler
    \/ RunPersist
    \/ EldStart \/ EldSegment \/ EldDrive \/ EldBreak \/ EldStop
    \/ RunAgain
    \/ Midnight

SpecRuns == InitRuns /\ [][NextRuns]_vars

\* ------------------------------------------------------------------ properties of the simulator

\* hours of `driving` Events in one LogDay record
DrivingIn(events) ==
    SumSeq([j \in 1..Len(events) |->
              IF events[j].type = "driving" THEN events[j].end - events[j].start ELSE 0])

\* hours of `driving` Events emitted under day number d
DrivingOfDay(d) ==
    SumSeq([k \in 1..Len(logs) |->
              IF logs[k].day = d THEN DrivingIn(logs[k].events) ELSE 0])

\* hours of `driving` Events emitted for the segment that ends at stop k
DrivingOfSegment(k) ==
    SumSeq([r \in 1..Len(logs) |->
              SumSeq([j \in 1..Len(logs[r].events) |->
                        IF /\ logs[r].events[j].type = "driving"
                           /\ logs[r].events[j].to = trip_stops[k].location
                        THEN logs[r].events[j].end - logs[r].events[j].start
                        ELSE 0])])

AllEventsBetween(lo, hi) ==
    \A r \in 1..Len(logs) : \A j \in 1..Len(logs[r].events) :
        /\ lo <= logs[r].events[j].start /\ logs[r].events[j].start < hi
        /\ lo <= logs[r].events[j].end /\ logs[r].events[j].end < hi

\* the segments whose driving loop has ended
SegmentsDriven ==
    {k \in 2..Len(trip_stops) : k < i \/ (k = i /\ epc = "stop")}

\* C2: the `driving` Events emitted under one day number sum to at most
\* 11 hours.
C2_DailyDrivingAtMostEleven ==
    \A r \in 1..Len(logs) :
        DrivingOfDay(logs[r].day) <= DailyDriveLimit * HoursScale

\* C3: a driving chunk that leaves the continuous-driving counter at 8 hours
\* or more is followed, in the same LogDay record, by a 30-minute rest Event
\* that starts where the chunk ends, and the counter is 0 before the next
\* chunk.
C3_RestAfterEightHours ==
    [][epc = "break" /\ epc' # epc =>
        LET rec == logs'[Len(logs')]
        IN  /\ rec.events[1].type = "driving"
            /\ FloatGeq(<<daily_drive_hours, daily_drive_hours_err>>, 8) =>
                  /\ Len(rec.events) = 2
                  /\ rec.events[2].type = "on_duty"
                  /\ rec.events[2].start = rec.events[1].end
                  /\ rec.events[2].end - rec.events[2].start = HoursScale \div 2
                  /\ daily_drive_hours' = 0
                  /\ daily_drive_hours_err' = 0]_vars

\* a rest Event was inserted and driving went on later the same day
C3_Witness ==
    \E r \in 1..Len(logs) : \E q \in 1..Len(logs) :
        /\ r < q
        /\ Len(logs[r].events) = 2
        /\ logs[r].events[2].type = "on_duty"
        /\ logs[q].day = logs[r].day
        /\ Len(logs[q].events) >= 1
        /\ logs[q].events[1].type = "driving"

\* C4: for every driven segment the `driving` Events sum to segment_miles/50
\* within 0.01 hour, segment_miles being the great-circle distance of the two
\* stops, or total_miles/(stop_count - 1) when a coordinate is missing.
C4_SegmentDrivingMatchesDistance ==
    \A k \in SegmentsDriven :
        LET both == /\ MetaHas(trip_stops[k - 1], "coordinates")
                    /\ MetaHas(trip_stops[k], "coordinates")
            \* segment_miles as a fraction of hundredths of a mile
            num == IF both
                   THEN Abs(trip_stops[k - 1].metadata.coordinates[1]
                            - trip_stops[k].metadata.coordinates[1])
                   ELSE total_miles
            den == IF both THEN 1 ELSE Len(trip_stops) - 1
            \* |driven/100 - (num/den)/100/50| <= 1/100, cleared of fractions
        IN  Abs(DrivingOfSegment(k) * den * AVERAGE_SPEED * MilesScale
                - num * HoursScale)
              <= den * AVERAGE_SPEED * MilesScale

\* a segment whose hours were rounded and whose driving spans two days, and
\* one measured as a share of total_miles
C4_Witness ==
    /\ epc = "done"
    /\ \E k \in SegmentsDriven :
          /\ MetaHas(trip_stops[k - 1], "coordinates")
          /\ MetaHas(trip_stops[k], "coordinates")
          /\ (great_circle(trip_stops[k - 1].metadata.coordinates,
                           trip_stops[k].metadata.coordinates) * HoursScale)
                % (AVERAGE_SPEED * MilesScale) # 0
          /\ \E r \in 1..Len(logs) : \E q \in 1..Len(logs) :
                /\ logs[r].day # logs[q].day
                /\ logs[r].events # << >> /\ logs[q].events # << >>
                /\ logs[r].events[1].type = "driving"
                /\ logs[q].events[1].type = "driving"
                /\ logs[r].events[1].to = trip_stops[k].location
                /\ logs[q].events[1].to = trip_stops[k].location
    /\ \E k \in SegmentsDriven :
          /\ ~MetaHas(trip_stops[k], "coordinates")
          /\ DrivingOfSegment(k) > 0

\* C5: every Event's start and end is an hour-of-day in [0, 24).
C5_EventsWithinDay == AllEventsBetween(0, HoursPerDay * HoursScale)

\* ------------------------------------------------------------------ properties of the planner

\* the stops of one type in a stop list
CountType(list, type) ==
    Cardinality({k \in 1..Len(list) : list[k].stop_type = type})

\* calculate_stops_with_fallback has returned
PlanReturned == cpc = "returned"

\* ... and nothing was raised inside calculate_stop_points
PlanSucceeded == PlanReturned /\ raised_in = None

\* C1: whatever the geocode, route and POI calls do, the stop list handed back
\* by calculate_stops_with_fallback is non-empty, its sequence numbers ascend
\* strictly from 1, its first stop is a pickup and its last a dropoff.
C1_PlanWellFormed ==
    PlanReturned =>
        /\ Len(plan_result) >= 1
        /\ plan_result[1].sequence = 1
        /\ \A k \in 1..(Len(plan_result) - 1) :
              plan_result[k].sequence < plan_result[k + 1].sequence
        /\ plan_result[1].stop_type = "pickup"
        /\ plan_result[Len(plan_result)].stop_type = "dropoff"

\* both fallback layers were gone through: an exception in the try block and
\* a failing geocode in the except branch
C1_Witness ==
    /\ PlanReturned
    /\ raised_in = "rest"
    /\ Len(stops) >= 2
    /\ plan_result = create_basic_trip_stops

\* C7: on the non-failing path the number of fuel stops is
\* floor(total_miles/1000) less the i in 1..floor(total_miles/1000) with
\* i*1000 >= 0.95*total_miles, whatever the POI searches found.
C7_FuelStopCount ==
    (PlanSucceeded /\ total_miles > 0) =>
        LET n == total_miles \div (1000 * MilesScale)
        IN  CountType(plan_result, "fuel")
              = n - Cardinality({k \in 1..n :
                                   k * 1000 * MilesScale * 100 >= 95 * total_miles})

\* total_miles = 1200: one fuel stop, with no POI found for it
C7_Witness ==
    /\ PlanSucceeded
    /\ total_miles = 1200 * MilesScale
    /\ CountType(plan_result, "fuel") = 1
    /\ \E k \in 1..Len(plan_result) :
          plan_result[k].stop_type = "fuel" /\ plan_result[k].metadata.is_fallback

\* C8: on the non-failing path the number of rest stops is
\* floor((total_miles/50)/8) less the i in that range with
\* i*400 >= 0.9*total_miles, whatever the POI searches found.
C8_RestStopCount ==
    (PlanSucceeded /\ total_miles > 0) =>
        LET n == total_miles \div (50 * 8 * MilesScale)
        IN  CountType(plan_result, "rest")
              = n - Cardinality({k \in 1..n :
                                   k * 400 * MilesScale * 10 >= 9 * total_miles})

\* total_miles = 1200: two rest stops, one with a POI and one without
C8_Witness ==
    /\ PlanSucceeded
    /\ total_miles = 1200 * MilesScale
    /\ CountType(plan_result, "rest") = 2
    /\ \E k \in 1..Len(plan_result) :
          plan_result[k].stop_type = "rest" /\ plan_result[k].metadata.is_fallback
    /\ \E k \in 1..Len(plan_result) :
          plan_result[k].stop_type = "rest" /\ ~plan_result[k].metadata.is_fallback

\* C9: when a step of the planning raised, the plan handed back is exactly
\* pickup (sequence 1) and dropoff (sequence 2), both with is_fallback = true.
C9_FailureGivesFlaggedFallback ==
    (PlanReturned /\ raised_in # None) =>
        /\ Len(plan_result) = 2
        /\ plan_result[1].stop_type = "pickup" /\ plan_result[1].sequence = 1
        /\ plan_result[2].stop_type = "dropoff" /\ plan_result[2].sequence = 2
        /\ \A k \in 1..2 :
              /\ MetaHas(plan_result[k], "is_fallback")
              /\ plan_result[k].metadata.is_fallback

\* ------------------------------------------------------------------ properties of the request handler

\* C6: with current_cycle_used at 70 or more the simulator fails before it
\* emits a LogDay, and the request ends in an error payload without eld_logs.
C6_CycleExceededFails ==
    current_cycle_used >= 70 =>
        /\ logs = << >>
        /\ epc \in {"idle", "start", "raised"}
        /\ ppc = "responded" =>
              /\ response.status = "error"
              /\ "eld_logs" \notin DOMAIN response

\* a request with 70 hours used was planned in full, the simulator raised and
\* the error response was sent
C6_Witness ==
    /\ ppc = "responded"
    /\ current_cycle_used = 70
    /\ epc = "raised"
    /\ Len(trip_stops) > 2
    /\ response.status = "error"
    /\ response.http = 500

\* C10: a request that passed validation is answered with success when
\* current_cycle_used < 70, whatever geocode, route and POI calls failed; an
\* error response after validation means the cycle was exceeded.
C10_OnlyCycleExceededIsFatal ==
    (ppc = "responded" /\ trip_saved) =>
        /\ current_cycle_used < 70 => response.status = "success"
        /\ response.status = "error" => current_cycle_used >= 70

\* every attempt failed, and so did the geocodes of estimate_distance: the
\* response is a success with the fallback warning and 500 miles
C10_Witness ==
    /\ ppc = "responded"
    /\ trip_saved
    /\ current_cycle_used < 70
    /\ retry_count = PostMaxRetries
    /\ route_data = NoRoute
    /\ response.status = "success"
    /\ response.total_miles = FallbackMiles * MilesScale
    /\ response.warnings # << >>

\* the stop Events of a list of LogDay records, in output order: every Event
\* that is neither `driving` nor the 30-minute `on_duty` rest
RECURSIVE StopEventsOf(_)
StopEventsOf(records) ==
    IF records = << >> THEN << >>
    ELSE StopEventsOf(SubSeq(records, 1, Len(records) - 1))
         \o SelectSeq(records[Len(records)].events,
                      LAMBDA e : e.type \notin {"driving", "on_duty"})

\* C11: in a success response eld_logs holds exactly one stop Event per stop
\* of `stops`, in sequence order (same stop_type and location), also when the
\* stops are the basic fallback pair or an attempt failed after the route was
\* obtained.
C11_LogsDerivedFromReturnedStops ==
    (ppc = "responded" /\ response.status = "success") =>
        LET events == StopEventsOf(response.eld_logs)
        IN  /\ Len(events) = Len(response.stops)
            /\ \A k \in 1..Len(events) :
                  /\ events[k].type = response.stops[k].stop_type
                  /\ events[k].location = response.stops[k].location

\* ------------------------------------------------------------------ properties of the route index

\* a loop iteration of the planner has picked a route point
PointPicked == cpc # "idle" /\ idx # NoIndex

\* C13: the route index picked for a fuel or rest stop is interior, never 0
\* and never len(route) - 1, and the coordinate picked is not an endpoint of
\* the route.
C13_IndexIsInterior ==
    PointPicked =>
        LET route_coords == route_geometry.coordinates
        IN  /\ idx # 0
            /\ idx # Len(route_coords) - 1
            /\ coords # Reversed(route_coords[1])
            /\ coords # Reversed(route_coords[Len(route_coords)])

\* clamp(round(p * n), 1, n - 2) for p = miles / total
ClampedRoundedIndex(miles, total, n) ==
    Max(1, Min(RoundDiv(miles * MilesScale * n, total), n - 2))

\* C19: the index of a fuel or rest stop is clamp(round(p * n), 1, n - 2) for
\* the stop's progress p and the route's length n, and the coordinate is
\* route[index] turned from (lon, lat) to (lat, lon).
C19_IndexIsClampedRound ==
    [][(cpc \in {"fuel", "rest"} /\ (Len(stops') > Len(stops) \/ raised_in' # raised_in)) =>
        LET route_coords == route_geometry.coordinates
            miles == IF cpc = "fuel" THEN FuelMileMarker(loop_i) ELSE BreakMiles(loop_i)
        IN  /\ idx' = ClampedRoundedIndex(miles, total_miles, Len(route_coords))
            /\ coords' = <<route_coords[idx' + 1][2], route_coords[idx' + 1][1]>>]_vars

\* C18: for a fuel or rest stop find_poi_near_location is called at the radii
\* 10, 20, 40 km in that order up to the first hit; the stop emitted has
\* is_fallback = false and the radius of that hit, or, when all three radii
\* found nothing, is_fallback = true, no radius, the synthetic label and the
\* route coordinate.
C18_RadiusLadder ==
    [][(cpc \in {"fuel", "rest"} /\ Len(stops') > Len(stops)) =>
        LET stop == stops'[Len(stops')]
            n == Len(poi_tried')
            label == IF cpc = "fuel" THEN <<"Fuel stop #", loop_i>>
                     ELSE <<"Rest stop #", loop_i>>
        IN  /\ n \in 1..3
            /\ \A k \in 1..n : poi_tried'[k].radius = <<10, 20, 40>>[k]
            /\ \A k \in 1..(n - 1) : poi_tried'[k].outcome = "none"
            /\ IF poi_tried'[n].outcome = "hit"
               THEN /\ stop.metadata.is_fallback = FALSE
                    /\ stop.metadata.search_radius_km = <<10, 20, 40>>[n]
               ELSE /\ n = 3
                    /\ stop.metadata.is_fallback = TRUE
                    /\ stop.metadata.search_radius_km = NoRadius
                    /\ stop.location = label
                    /\ stop.metadata.coordinates = coords']_vars

\* a plan with a stop whose POI was found at the third radius and a stop for
\* which no radius found one
C18_Witness ==
    /\ PlanSucceeded
    /\ \E k \in 1..Len(plan_result) :
          /\ plan_result[k].stop_type = "fuel"
          /\ ~plan_result[k].metadata.is_fallback
          /\ plan_result[k].metadata.search_radius_km = 40
    /\ \E k \in 1..Len(plan_result) :
          /\ plan_result[k].stop_type = "rest"
          /\ plan_result[k].metadata.is_fallback
          /\ plan_result[k].metadata.search_radius_km = NoRadius
          /\ plan_result[k].location[1] = "Rest stop #"

\* ------------------------------------------------------------------ odometer and day rollover

\* hours of `driving` Events in the records 1..r
DrivingUpTo(r) == SumSeq([q \in 1..r |-> DrivingIn(logs[q].events)])

\* C15: the odometer values do not decrease in output order, and each
\* record's odometer is 50 times the hours of all `driving` Events emitted up
\* to and including that record.
C15_OdometerCumulative ==
    /\ \A r \in 1..(Len(logs) - 1) : logs[r].odometer <= logs[r + 1].odometer
    /\ \A r \in 1..Len(logs) : logs[r].odometer = 50 * DrivingUpTo(r)

\* a finished log with a marker record between two driving records, and a
\* stop record after them that repeats the last reading
C15_Witness ==
    /\ epc = "done"
    /\ \E r \in 2..(Len(logs) - 2) :
          /\ logs[r].events = << >>
          /\ logs[r].odometer = logs[r - 1].odometer
          /\ logs[r - 1].odometer > 0
          /\ logs[r + 1].odometer > logs[r].odometer
          /\ logs[Len(logs)].odometer >= logs[r + 1].odometer
          /\ logs[Len(logs)].events[1].type = "dropoff"

\* every `driving` Event starts before hour 14 of its day
DrivingStartsBeforeFourteen ==
    \A r \in 1..Len(logs) : \A j \in 1..Len(logs[r].events) :
        logs[r].events[j].type = "driving" => logs[r].events[j].start < 14 * HoursScale

\* C20: before each driving chunk, a drive counter of 11 or more or a clock
\* of 14 or more appends an empty marker LogDay with the day being closed,
\* raises day by one and resets clock and counter, so the chunk starts at
\* hour 0 of the new day; otherwise day stays. No `driving` Event starts at
\* hour 14 or later (the start an Event shows is round(event_start, 2)).
C20_RolloverBeforeChunk ==
    /\ [][epc = "drive" /\ epc' # epc =>
            LET n == Len(logs)
                rec == logs'[Len(logs')]
                chunk == rec.events[1].end - rec.events[1].start
            IN  /\ rec.events[1].type = "driving"
                /\ rec.day = day'
                /\ IF \/ FloatGeq(<<daily_drive_hours, daily_drive_hours_err>>, 11)
                      \/ FloatGeq(<<current_hour, current_hour_err>>, 14)
                   THEN /\ Len(logs') = n + 2
                        /\ logs'[n + 1].day = day
                        /\ logs'[n + 1].events = << >>
                        /\ day' = day + 1
                        /\ rec.events[1].start = 0
                        /\ daily_drive_hours' = chunk
                   ELSE /\ Len(logs') = n + 1
                        /\ day' = day
                        /\ rec.events[1].start = current_hour]_vars
    /\ []DrivingStartsBeforeFourteen

\* C14: a request whose current_cycle_used is below 0 or above 70 is answered
\* with the 400 validation error before planning starts: no Trip is saved, no
\* Stop is created, and no geocode, route or POI service is called.
C14_InvalidCycleRejectedBeforePlanning ==
    (current_cycle_used < 0 \/ current_cycle_used > 70) =>
        /\ ppc \in {"request", "responded"}
        /\ ppc = "responded" => (response.status = "error" /\ response.http = 400)
        /\ ~trip_saved
        /\ trip_stops = << >>
        /\ post_stops = << >>
        /\ cpc = "idle"
        /\ calls = {}

\* a request with 71 hours used has been answered 400 with nothing saved and
\* no service called
C14_Witness ==
    /\ current_cycle_used = MAX_CYCLE_HOURS + 1
    /\ ppc = "responded"
    /\ response.http = 400
    /\ ~trip_saved
    /\ calls = {}

\* C16: the geocode + route + plan + persist pipeline is attempted at most 3
\* times; an attempt that fails at any step while fewer than 3 attempts have
\* failed is followed by a sleep of 2^k seconds (k the failures so far) and by
\* another attempt; after the third failure the stops are the basic stops and
\* the success response carries the fallback warning.
C16_PipelineRetriedThreeTimes ==
    /\ [][ppc = "except" /\ ppc' # ppc /\ retry_count + 1 < 3 =>
             /\ slept' = Append(slept, 2 ^ (retry_count + 1))
             /\ ppc' = "attempt"]_vars
    /\ [][ppc = "except" /\ ppc' # ppc /\ retry_count + 1 >= 3 =>
             /\ post_stops' = create_basic_trip_stops
             /\ ppc' = "simulate"]_vars
    /\ [](/\ retry_count <= 3
          /\ ppc = "attempt" => retry_count < 3
          /\ (ppc = "responded" /\ retry_count = 3 /\ response.status = "success")
                => response.warnings = <<"Used fallback data">>)

\* C23: generate_eld_logs_with_stops terminates: at the start of every
\* driving chunk the drive counter is below 8, each iteration of the driving
\* loop drives a chunk above 0 and leaves less to drive, and the loop ends
\* with exactly 0 left.
C23_SimulatorTerminates ==
    /\ [](epc = "drive" =>
            /\ FloatLess(<<daily_drive_hours, daily_drive_hours_err>>,
                         <<BreakAfterHours * HoursScale, 0>>)
            /\ FloatGt(<<drive_hours, drive_hours_err>>, 0))
    /\ [][epc = "drive" /\ epc' # epc =>
            LET rec == logs'[Len(logs')]
            IN  /\ rec.events[1].type = "driving"
                /\ rec.events[1].end - rec.events[1].start
                      = drive_hours - drive_hours'
                /\ FloatLess(<<drive_hours', drive_hours_err'>>,
                             <<drive_hours, drive_hours_err>>)
                /\ ~FloatLess(<<drive_hours', drive_hours_err'>>, <<0, 0>>)]_vars
    /\ [](epc = "stop" => (drive_hours = 0 /\ drive_hours_err = 0))
    /\ <>(epc \in {"done", "raised"})

\* a segment was driven in two chunks, the second of them above 0 in two
\* decimals, its loop ended with nothing left, and the run has returned
C23_Witness ==
    /\ epc = "done"
    /\ drive_hours = 0
    /\ drive_hours_err = 0
    /\ \E k \in SegmentsDriven :
          \E r \in 1..Len(logs) : \E q \in 1..Len(logs) :
             /\ r < q
             /\ logs[r].events # << >> /\ logs[q].events # << >>
             /\ logs[r].events[1].type = "driving"
             /\ logs[q].events[1].type = "driving"
             /\ logs[r].events[1].to = trip_stops[k].location
             /\ logs[q].events[1].to = trip_stops[k].location
             /\ logs[q].events[1].end > logs[q].events[1].start

\* the mile of the route a planned stop stands for, in hundredths: the
\* mile_marker of a fuel stop and the break_miles of a rest stop; the pickup
\* counts as the lowest mile and the dropoff as the highest
MileOf(stop) ==
    IF stop.stop_type = "pickup" THEN 0
    ELSE IF stop.stop_type = "dropoff" THEN total_miles
    ELSE IF stop.stop_type = "fuel"
    THEN FuelMileMarker(stop.metadata.purpose[2]) * MilesScale
    ELSE BreakMiles(stop.metadata.purpose[2]) * MilesScale

\* C22: in the list calculate_stop_points returns, the stops in sequence
\* order are in route order: the mile markers do not decrease from pickup to
\* dropoff (no fuel stop at mile 1000 before a rest stop at mile 400).
C22_StopsInRouteOrder ==
    PlanSucceeded =>
        \A k \in 1..(Len(plan_result) - 1) :
            MileOf(plan_result[k]) <= MileOf(plan_result[k + 1])

\* ------------------------------------------------------------------ properties of the POI search

\* C17: find_poi_near_location terminates; the keywords are tried in list
\* order, each gets at most 3 attempts whatever an attempt's outcome, and the
\* call ends by returning, None only once every keyword is exhausted, never
\* by raising; at most len(keywords) * 3 search requests are sent.
C17_PoiSearchTerminates ==
    /\ [][call' = call => keyword' \in {keyword, keyword + 1}]_vars
    /\ [](\A k \in DOMAIN tries : tries[k] <= 3)
    /\ [](searches <= Len(keywords) * 3)
    /\ []((fpc = "returned" /\ ~poi_result.found) => keyword > Len(keywords))
    /\ [](fpc # "raised")
    /\ <>(fpc = "returned")

\* C21: after a call has returned a POI, the same call made again while the
\* cache entries are live returns that POI and sends no reverse-geocode and
\* no search request, whichever keyword of the list gave the first hit.
C21_RepeatedCallServedFromCache ==
    (call = 2 /\ first_poi.found) =>
        /\ searches = 0
        /\ reverses = 0
        /\ fpc # "raised"
        /\ fpc = "returned" => poi_result = first_poi

\* ------------------------------------------------------------------ properties of two runs

\* C12: with the same trip and the same fixed geocode, route and POI
\* responses, the second run of planning plus simulation gives the stop list
\* and the LogDay list, dates included, of the first run, whenever each run
\* executes and whatever the first run left in the cache.
C12_RunsIdentical ==
    (run = 2 /\ cpc = "returned" /\ epc \in {"done", "raised"}) =>
        /\ plan_result = first_stops
        /\ logs = first_logs

====
